---- MODULE Spec2Model ----
(***************************************************************************)
(* The v1 directory-signature reader (src/src/v1/reader.rs): the header    *)
(* parser, the line parser and the Parser cursor with next(), advance()    *)
(* and reset(), over an in-memory seekable byte source (the                *)
(* BufReader<Cursor<&[u8]>> of tests/reader.rs, whose reads never fail).   *)
(* Spec is the cursor under every mix of calls; SpecSeq is sequential      *)
(* reading alone, over more kinds of lines; SpecHdr opens streams over     *)
(* many header lines; SpecEsc reads streams whose paths are escaped;       *)
(* SpecOrd seeks where byte order and component order of paths differ;     *)
(* SpecCodec is the escape codec alone; SpecConfig is the ScannerConfig of *)
(* src/src/config.rs under its setters.                                    *)
(* Byte strings are sequences of byte values; all bytes are ASCII, so the  *)
(* from_utf8 conversions of the source always succeed.                     *)
(***************************************************************************)
EXTENDS Integers, Sequences, FiniteSets, TLC

VARIABLES
    stream,           \* the whole byte source, header line included
    doc,              \* ghost: the content lines the stream was rendered from
    state,            \* "closed" before Parser::new, then "open" or "failed"
    header,           \* Parser.header
    pos,              \* Parser.reader: bytes consumed so far
    current_dir,      \* Parser.current_dir
    current_row_num,  \* Parser.current_row_num
    op,               \* ghost: the last call and its argument
    ret,              \* ghost: what the last call returned
    trail,            \* ghost: the shape of the calls since open/reset
    hdr,              \* ghost: the fields the header line was rendered from
    codec,            \* the escape codec at work: its input, text and output
    config            \* a ScannerConfig and the setters called on it

vars == <<stream, doc, state, header, pos, current_dir, current_row_num,
          op, ret, trail, hdr, codec, config>>

(***************************************************************************)
(* Bytes the source names.                                                 *)
(***************************************************************************)
NL == 10
SP == 32
DOT == 46
SLASH == 47
EQUALS == 61
TagF == 102
TagX == 120
TagS == 115

MAGIC == <<68, 73, 82, 83, 73, 71, 78, 65, 84, 85, 82, 69>>   \* "DIRSIGNATURE"
BLOCK_SIZE_KEY == <<98, 108, 111, 99, 107, 95, 115, 105, 122, 101>> \* "block_size"
SHA512_256 == <<115, 104, 97, 53, 49, 50, 47, 50, 53, 54>>    \* "sha512/256"
BLAKE2B_256 == <<98, 108, 97, 107, 101, 50, 98, 47, 50, 53, 54>> \* "blake2b/256"

(***************************************************************************)
(* Slices.                                                                 *)
(***************************************************************************)
Min(S) == CHOOSE x \in S : \A y \in S : x <= y

StartsWith(s, p) == Len(s) >= Len(p) /\ SubSeq(s, 1, Len(p)) = p

EndsWith(s, p) == Len(s) >= Len(p) /\ SubSeq(s, Len(s) - Len(p) + 1, Len(s)) = p

From(s, i) == SubSeq(s, i, Len(s))

\* the index of the first b in s, 0 when there is none
RECURSIVE IndexFrom(_, _, _)
IndexFrom(s, b, i) ==
    IF i > Len(s) THEN 0 ELSE IF s[i] = b THEN i ELSE IndexFrom(s, b, i + 1)

IndexOf(s, b) == IndexFrom(s, b, 1)

\* slice.splitn(2, b): the part before the first b, and the part after it
\* (found = FALSE when there is no b: the second next() is None)
Splitn2(s, b) ==
    LET i == IndexOf(s, b)
    IN  IF i = 0 THEN [head |-> s, found |-> FALSE, tail |-> <<>>]
        ELSE [head |-> SubSeq(s, 1, i - 1), found |-> TRUE, tail |-> From(s, i + 1)]

\* str.split(b): every part, empty parts included
RECURSIVE Split(_, _)
Split(s, b) ==
    LET p == Splitn2(s, b)
    IN  IF p.found THEN <<p.head>> \o Split(p.tail, b) ELSE <<s>>

\* str.trim_right_matches('\n')
RECURSIVE TrimRightNL(_)
TrimRightNL(s) ==
    IF EndsWith(s, <<NL>>) THEN TrimRightNL(SubSeq(s, 1, Len(s) - 1)) ELSE s

\* the "if row.ends_with(b"\n") { strip one }" of Entry::parse and next_line
StripNL(s) == IF EndsWith(s, <<NL>>) THEN SubSeq(s, 1, Len(s) - 1) ELSE s

\* byte-wise lexicographic order of two byte strings (Ord for [u8] and OsStr)
CmpBytes(a, b) ==
    LET n == IF Len(a) < Len(b) THEN Len(a) ELSE Len(b)
        D == {i \in 1..n : a[i] # b[i]}
    IN  IF D = {}
        THEN IF Len(a) < Len(b) THEN "Less"
             ELSE IF Len(a) = Len(b) THEN "Equal" ELSE "Greater"
        ELSE IF a[Min(D)] < b[Min(D)] THEN "Less" ELSE "Greater"

(***************************************************************************)
(* std::path on unix, as far as the reader uses it.  A component is        *)
(* <<rank, name>> with the ranks in the declaration order of               *)
(* std::path::Component: RootDir 1, CurDir 2, ParentDir 3, Normal 4.       *)
(***************************************************************************)
RootDir == <<1, <<>>>>
CurDir == <<2, <<>>>>
ParentDir == <<3, <<>>>>
Normal(name) == <<4, name>>

\* Path::components: the root, then the parts between separators, empty
\* parts dropped, "." dropped except as the first part of a relative path
RECURSIVE Collect(_, _, _)
Collect(parts, root, i) ==
    IF i > Len(parts) THEN <<>>
    ELSE (IF parts[i] = <<>> THEN <<>>
          ELSE IF parts[i] = <<DOT>>
               THEN IF i = 1 /\ ~root THEN <<CurDir>> ELSE <<>>
          ELSE IF parts[i] = <<DOT, DOT>> THEN <<ParentDir>>
          ELSE <<Normal(parts[i])>>) \o Collect(parts, root, i + 1)

Components(p) ==
    LET root == StartsWith(p, <<SLASH>>)
    IN  (IF root THEN <<RootDir>> ELSE <<>>) \o Collect(Split(p, SLASH), root, 1)

CmpComponent(c, d) ==
    IF c[1] < d[1] THEN "Less"
    ELSE IF c[1] > d[1] THEN "Greater"
    ELSE CmpBytes(c[2], d[2])

\* Path::partial_cmp: lexicographic over the components
PathCmp(p, q) ==
    LET a == Components(p)
        b == Components(q)
        n == IF Len(a) < Len(b) THEN Len(a) ELSE Len(b)
        D == {i \in 1..n : a[i] # b[i]}
    IN  IF D = {}
        THEN IF Len(a) < Len(b) THEN "Less"
             ELSE IF Len(a) = Len(b) THEN "Equal" ELSE "Greater"
        ELSE CmpComponent(a[Min(D)], b[Min(D)])

\* Path::starts_with: base's components are a prefix of p's
PathStartsWith(p, base) ==
    LET a == Components(p)
        b == Components(base)
    IN  Len(b) <= Len(a) /\ SubSeq(a, 1, Len(b)) = b

\* PathJoin without the separator it adds
PathJoinNoSep(base, p) == IF StartsWith(p, <<SLASH>>) THEN p ELSE base \o p

\* Path::join (PathBuf::push): an absolute argument replaces the path, a
\* separator is added unless the path is empty or ends with one
PathJoin(base, p) ==
    IF StartsWith(p, <<SLASH>>) THEN p
    ELSE IF base # <<>> /\ base[Len(base)] # SLASH THEN base \o <<SLASH>> \o p
    ELSE base \o p

(***************************************************************************)
(* Errors.  A ParseRowError is its message, kept as a tag and the byte     *)
(* strings the message quotes.                                             *)
(***************************************************************************)
RowError(tag, a, b) == [tag |-> tag, a |-> a, b |-> b]

NoError == RowError("none", <<>>, <<>>)

(***************************************************************************)
(* Grammar primitives.                                                     *)
(***************************************************************************)
\* parse_field: split at the first space; no space: the whole input, and ""
parse_field(data) ==
    LET p == Splitn2(data, SP)
    IN  [field |-> p.head, tail |-> p.tail]

IsDigit(c) == c >= 48 /\ c <= 57

U64_MAX_DIGITS == <<1, 8, 4, 4, 6, 7, 4, 4, 0, 7, 3, 7, 0, 9, 5, 5, 1, 6, 1, 5>>

RECURSIVE StripZeros(_)
StripZeros(ds) ==
    IF ds # <<>> /\ ds[1] = 0 THEN StripZeros(Tail(ds)) ELSE ds

RECURSIVE DecValue(_, _)
DecValue(ds, acc) ==
    IF ds = <<>> THEN acc ELSE DecValue(Tail(ds), acc * 10 + ds[1])

\* u64::from_str_radix(v, 10): an optional '+' (byte 43), then one or more decimal
\* digits, the value at most 2^64 - 1.  The value is computed for inputs of
\* at most 9 significant digits, which is all the model draws.
from_str_radix(v) ==
    LET digits == IF v # <<>> /\ v[1] = 43 THEN Tail(v) ELSE v
        ds == StripZeros([i \in 1..Len(digits) |-> digits[i] - 48])
    IN  IF digits = <<>> \/ \E i \in 1..Len(digits) : ~IsDigit(digits[i])
        THEN [ok |-> FALSE, val |-> 0]
        ELSE IF Len(ds) > Len(U64_MAX_DIGITS)
                \/ (Len(ds) = Len(U64_MAX_DIGITS)
                    /\ CmpBytes(ds, U64_MAX_DIGITS) = "Greater")
        THEN [ok |-> FALSE, val |-> 0]
        ELSE [ok |-> TRUE, val |-> IF Len(ds) <= 9 THEN DecValue(ds, 0) ELSE -1]

\* parse_u64: the first field as a decimal u64, and the rest
parse_u64(data) ==
    LET f == parse_field(data)
        v == from_str_radix(f.field)
    IN  IF v.ok THEN [ok |-> TRUE, val |-> v.val, tail |-> f.tail, err |-> NoError]
        ELSE [ok |-> FALSE, val |-> 0, tail |-> <<>>,
              err |-> RowError("CannotParseInteger", f.field, <<>>)]

(***************************************************************************)
(* Header.                                                                 *)
(***************************************************************************)
NoHeader == [version |-> <<>>, hash_type |-> "None", block_size |-> 0]

\* HashType::from_str: the closed set of algorithm names
HashTypeFromStr(s) ==
    IF s = SHA512_256 THEN [ok |-> TRUE, val |-> "Sha512_256"]
    ELSE IF s = BLAKE2B_256 THEN [ok |-> TRUE, val |-> "Blake2b_256"]
    ELSE [ok |-> FALSE, val |-> "None"]

HeaderErr(tag, a, b) ==
    [kind |-> "err", header |-> NoHeader, err |-> RowError(tag, a, b)]

\* MagicMatches comparing without regard to case
MagicMatchesNoCase(magic) ==
    [i \in 1..Len(magic) |-> IF magic[i] >= 97 /\ magic[i] <= 122
                             THEN magic[i] - 32 ELSE magic[i]] = MAGIC

\* the "magic != MAGIC" of Header::parse
MagicMatches(magic) == magic = MAGIC

\* HeaderParse rejecting a header with more than three tokens
HeaderParseStrict(row) ==
    LET line == TrimRightNL(row)
        parts == Split(line, SP)
        sig == Splitn2(parts[1], DOT)
        magic == sig.head
        hash == HashTypeFromStr(parts[2])
        kv == Splitn2(parts[3], EQUALS)
        bs == from_str_radix(kv.tail)
    IN  IF ~MagicMatches(magic) THEN HeaderErr("InvalidSignature", MAGIC, magic)
        ELSE IF ~sig.found THEN HeaderErr("MissingVersion", <<>>, <<>>)
        ELSE IF Len(parts) < 2 THEN HeaderErr("MissingHashType", <<>>, <<>>)
        ELSE IF ~hash.ok THEN HeaderErr("HashType", parts[2], <<>>)
        ELSE IF Len(parts) < 3 THEN HeaderErr("MissingBlockSizeAttr", <<>>, <<>>)
        ELSE IF kv.head # BLOCK_SIZE_KEY
             THEN HeaderErr("ExpectedBlockSize", <<>>, <<>>)
        ELSE IF ~kv.found
             THEN [kind |-> "panic", header |-> NoHeader, err |-> NoError]
        ELSE IF ~bs.ok THEN HeaderErr("InvalidHeaderInt", kv.tail, <<>>)
        ELSE IF Len(parts) > 3 THEN HeaderErr("UnknownAttr", parts[4], <<>>)
        ELSE [kind |-> "ok",
              header |-> [version |-> sig.tail, hash_type |-> hash.val,
                          block_size |-> bs.val],
              err |-> NoError]

\* Header::parse.  kind "panic" is the unwrap() of a missing "=value".
HeaderParse(row) ==
    LET line == TrimRightNL(row)
        parts == Split(line, SP)
        sig == Splitn2(parts[1], DOT)
        magic == sig.head
        hash == HashTypeFromStr(parts[2])
        kv == Splitn2(parts[3], EQUALS)
        bs == from_str_radix(kv.tail)
    IN  IF ~MagicMatches(magic) THEN HeaderErr("InvalidSignature", MAGIC, magic)
        ELSE IF ~sig.found THEN HeaderErr("MissingVersion", <<>>, <<>>)
        ELSE IF Len(parts) < 2 THEN HeaderErr("MissingHashType", <<>>, <<>>)
        ELSE IF ~hash.ok THEN HeaderErr("HashType", parts[2], <<>>)
        ELSE IF Len(parts) < 3 THEN HeaderErr("MissingBlockSizeAttr", <<>>, <<>>)
        ELSE IF kv.head # BLOCK_SIZE_KEY
             THEN HeaderErr("ExpectedBlockSize", <<>>, <<>>)
        ELSE IF ~kv.found
             THEN [kind |-> "panic", header |-> NoHeader, err |-> NoError]
        ELSE IF ~bs.ok THEN HeaderErr("InvalidHeaderInt", kv.tail, <<>>)
        ELSE [kind |-> "ok",
              header |-> [version |-> sig.tail, hash_type |-> hash.val,
                          block_size |-> bs.val],
              err |-> NoError]

(***************************************************************************)
(* Entries.                                                                *)
(***************************************************************************)
NoEntry == [kind |-> "None", path |-> <<>>, size |-> 0, hashes |-> <<>>, dest |-> <<>>]

Dir(path) == [kind |-> "Dir", path |-> path, size |-> 0, hashes |-> <<>>, dest |-> <<>>]

File(path, size, hashes) ==
    [kind |-> "File", path |-> path, size |-> size, hashes |-> hashes, dest |-> <<>>]

Link(path, dest) ==
    [kind |-> "Link", path |-> path, size |-> 0, hashes |-> <<>>, dest |-> dest]

\* Hashes::parse: no hashes for an empty rest, else its space-separated parts
HashesParse(row) == IF row = <<>> THEN <<>> ELSE Split(row, SP)

\* parse_path_buf / parse_path / parse_os_str: the first field, as it stands
parse_path(data) == parse_field(data)

EntryOk(e) == [ok |-> TRUE, entry |-> e, err |-> NoError]

EntryErr(e) == [ok |-> FALSE, entry |-> NoEntry, err |-> e]

\* Entry::parse
EntryParse(row0, cur_dir) ==
    LET row == StripNL(row0)
    IN  IF StartsWith(row, <<SLASH>>)
        THEN EntryOk(Dir(parse_path(row).field))
        ELSE IF StartsWith(row, <<SP, SP>>)
        THEN LET p == parse_path(From(row, 3))
                 path == PathJoin(cur_dir, p.field)
                 t == parse_field(p.tail)
                 file_type == t.field
                 size == parse_u64(t.tail)
             IN  IF file_type = <<TagF>> \/ file_type = <<TagX>>
                 THEN IF size.ok
                      THEN EntryOk(File(path, size.val, HashesParse(size.tail)))
                      ELSE EntryErr(size.err)
                 ELSE IF file_type = <<TagS>>
                 THEN EntryOk(Link(path, parse_path(t.tail).field))
                 ELSE EntryErr(RowError("UnknownFileType", file_type, <<>>))
        ELSE EntryErr(RowError("ExpectedSlashOrSpaces", <<>>, <<>>))

(***************************************************************************)
(* The byte source.                                                        *)
(***************************************************************************)
\* BufRead::read_until(b'\n') at offset p: the bytes up to and including the
\* next newline, or up to the end of the source
RECURSIVE LineEnd(_, _)
LineEnd(buf, i) ==
    IF i >= Len(buf) THEN Len(buf)
    ELSE IF buf[i + 1] = NL THEN i + 1 ELSE LineEnd(buf, i + 1)

read_until(buf, p) == SubSeq(buf, p + 1, LineEnd(buf, p))

\* Parser::next_line from offset p: the next non-empty line without its
\* newline, where it starts (at) and the offset after it; some = FALSE at
\* the end of the source
RECURSIVE next_line(_, _)
next_line(buf, p) ==
    LET chunk == read_until(buf, p)
        line == StripNL(chunk)
    IN  IF Len(chunk) = 0
        THEN [some |-> FALSE, line |-> <<>>, at |-> p, pos |-> p]
        ELSE IF line = <<>> THEN next_line(buf, p + Len(chunk))
        ELSE [some |-> TRUE, line |-> line, at |-> p, pos |-> p + Len(chunk)]

(***************************************************************************)
(* The Parser.  An engine is the mutable part of the struct; a call        *)
(* returns the engine it leaves and its result.                            *)
(***************************************************************************)
Engine(p, dir, row) == [pos |-> p, current_dir |-> dir, current_row_num |-> row]

Result(kind, entry, err, row, at, eof) ==
    [kind |-> kind, entry |-> entry, err |-> err, row |-> row, at |-> at, eof |-> eof]

Ret(e, r) == [engine |-> e, result |-> r]

Found(entry, at) == Result("entry", entry, NoError, 0, at, FALSE)

\* Ok(None) of advance, None of next; at = -1 when the source is exhausted
Nothing(at, eof) == Result("none", NoEntry, NoError, 0, at, eof)

\* ParseError::Parse(msg, row_num)
ParseError(err, row, at) == Result("err", NoEntry, err, row, at, FALSE)

\* Parser::new: read the header line, parse it with context(1)
ParserNew(buf) ==
    LET header_line == read_until(buf, 0)
        h == HeaderParse(header_line)
    IN  [kind |-> h.kind, header |-> h.header,
         engine |-> Engine(Len(header_line), <<>>, 1),
         result |-> IF h.kind = "ok" THEN Result("ok", NoEntry, NoError, 0, -1, FALSE)
                    ELSE IF h.kind = "err" THEN ParseError(h.err, 1, 0)
                    ELSE Result("panic", NoEntry, NoError, 0, 0, FALSE)]

\* ParserReset keeping the directory context
ParserResetKeepDir(buf, e) ==
    Ret(Engine(next_line(buf, 0).pos, e.current_dir, 1),
        Result("ok", NoEntry, NoError, 0, -1, FALSE))

\* ParserReset without the read of the header line
ParserResetNoSkip(buf, e) ==
    Ret(Engine(0, <<>>, 1), Result("ok", NoEntry, NoError, 0, -1, FALSE))

\* Parser::reset: seek to the start, clear the context, row 1, skip a line
ParserReset(buf, e) ==
    Ret(Engine(next_line(buf, 0).pos, <<>>, 1),
        Result("ok", NoEntry, NoError, 0, -1, FALSE))

\* Iterator::next
ParserNext(buf, e) ==
    LET nl == next_line(buf, e.pos)
        row == e.current_row_num + 1
        r == EntryParse(nl.line, e.current_dir)
    IN  IF ~nl.some
        THEN Ret(Engine(nl.pos, e.current_dir, e.current_row_num), Nothing(-1, TRUE))
        ELSE IF ~r.ok
        THEN Ret(Engine(nl.pos, e.current_dir, row), ParseError(r.err, row, nl.at))
        ELSE Ret(Engine(nl.pos,
                        IF r.entry.kind = "Dir" THEN r.entry.path ELSE e.current_dir,
                        row),
                 Found(r.entry, nl.at))

\* the loop of Parser::advance, from engine e with the skip_files flag
RECURSIVE advance_loop(_, _, _, _)
advance_loop(buf, path, e, skip_files) ==
    LET nl == next_line(buf, e.pos)
        row == e.current_row_num + 1
        here == Engine(nl.pos, e.current_dir, row)
        dir_path == parse_path(nl.line).field
        file_path == parse_path(From(nl.line, 3)).field
        parsed == EntryParse(nl.line, e.current_dir)
        dir_cmp == PathCmp(dir_path, path)
        file_cmp == PathCmp(PathJoin(e.current_dir, file_path), path)
    IN  IF ~nl.some
        THEN Ret(Engine(nl.pos, e.current_dir, e.current_row_num), Nothing(-1, TRUE))
        ELSE IF StartsWith(nl.line, <<SLASH>>)
        THEN CASE dir_cmp = "Less" ->
                    IF PathStartsWith(path, dir_path)
                    THEN advance_loop(buf, path, Engine(nl.pos, dir_path, row), skip_files)
                    ELSE advance_loop(buf, path, here, TRUE)
               [] dir_cmp = "Equal" ->
                    Ret(here, Found(Dir(dir_path), nl.at))
               [] dir_cmp = "Greater" ->
                    Ret(here, Nothing(nl.at, FALSE))
        ELSE IF skip_files THEN advance_loop(buf, path, here, skip_files)
        ELSE IF StartsWith(nl.line, <<SP, SP>>)
        THEN CASE file_cmp = "Less" ->
                    advance_loop(buf, path, here, skip_files)
               [] file_cmp = "Equal" ->
                    IF parsed.ok THEN Ret(here, Found(parsed.entry, nl.at))
                    ELSE Ret(here, ParseError(parsed.err, row, nl.at))
               [] file_cmp = "Greater" ->
                    Ret(here, Nothing(nl.at, FALSE))
        ELSE Ret(here, ParseError(RowError("ExpectedSlashOrSpaces", <<>>, <<>>),
                                  row, nl.at))

\* ParserAdvance scanning from the first content line at every call
ParserAdvanceFromStart(buf, path, e) ==
    advance_loop(buf, path,
                 Engine(next_line(buf, 0).pos, e.current_dir, e.current_row_num),
                 ~PathStartsWith(path, e.current_dir))

\* ParserAdvance rewinding to the first content line when it runs off the end
ParserAdvanceWrap(buf, path, e) ==
    LET r == advance_loop(buf, path, e, ~PathStartsWith(path, e.current_dir))
    IN  IF r.result.eof THEN Ret(Engine(next_line(buf, 0).pos, <<>>, 1), r.result)
        ELSE r

\* ParserAdvance seeking back to the start of a file or link line that
\* made it return not found
ParserAdvanceUnread(buf, path, e) ==
    LET r == advance_loop(buf, path, e, ~PathStartsWith(path, e.current_dir))
    IN  IF r.result.kind = "none" /\ ~r.result.eof
           /\ StartsWith(From(buf, r.result.at + 1), <<SP, SP>>)
        THEN Ret(Engine(r.result.at, r.engine.current_dir,
                        r.engine.current_row_num - 1), r.result)
        ELSE r

\* Parser::advance
ParserAdvance(buf, path, e) ==
    advance_loop(buf, path, e, ~PathStartsWith(path, e.current_dir))

(***************************************************************************)
(* The escape codec.  unescape_hex is the decoder of the reader; the       *)
(* encoder belongs to the writer and is taken from the format's rule.      *)
(***************************************************************************)
BACKSLASH == 92
LowerX == 120

\* the bitwise or of two bytes
RECURSIVE BitOr(_, _)
BitOr(a, b) ==
    IF a = 0 THEN b
    ELSE IF b = 0 THEN a
    ELSE (IF a % 2 = 1 \/ b % 2 = 1 THEN 1 ELSE 0) + 2 * BitOr(a \div 2, b \div 2)

\* is_hex accepting no lower-case digit
is_hexUpperOnly(c) == (c >= 48 /\ c <= 57) \/ (c >= 65 /\ c <= 70)

\* is_hex: 0-9, A-F, a-f
is_hex(c) ==
    (c >= 48 /\ c <= 57) \/ (c >= 65 /\ c <= 70) \/ (c >= 97 /\ c <= 102)

\* is_hex_encoding: the slice starts with '\', 'x' and two hex digits
is_hex_encoding(s) ==
    Len(s) >= 4 /\ s[1] = BACKSLASH /\ s[2] = LowerX /\ (is_hex(s[3]) /\ is_hex(s[4]))

\* hex_to_digit taking a letter for its low four bits alone
hex_to_digitNoLetters(v) == v % 16

\* hex_to_digit: v & 0x0f for '0'..'9', (v & 0x0f) + 9 otherwise, in u8
hex_to_digit(v) ==
    IF v >= 48 /\ v <= 57 THEN v % 16 ELSE ((v % 16) + 9) % 256

\* parse_hex: (hex_to_digit(v[0]) << 4) | hex_to_digit(v[1]), in u8
parse_hex(v) == BitOr((hex_to_digit(v[1]) * 16) % 256, hex_to_digit(v[2]))

\* the pre-scan of unescape_hex: the index of the first escape from i on,
\* Len(bytes) + 1 when there is none
RECURSIVE first_escape(_, _)
first_escape(bytes, i) ==
    IF i > Len(bytes) THEN i
    ELSE IF is_hex_encoding(From(bytes, i)) THEN i
    ELSE first_escape(bytes, i + 1)

\* the decoding loop of unescape_hex from index i on
RECURSIVE unescape_loop(_, _)
unescape_loop(bytes, i) ==
    IF i > Len(bytes) THEN <<>>
    ELSE IF is_hex_encoding(From(bytes, i))
    THEN <<parse_hex(From(bytes, i + 2))>> \o unescape_loop(bytes, i + 4)
    ELSE <<bytes[i]>> \o unescape_loop(bytes, i + 1)

\* unescape_hex: the input itself (Cow::Borrowed) when it holds no escape,
\* else a new buffer (Cow::Owned) with every escape decoded
unescape_hex(s) ==
    LET i == first_escape(s, 1)
    IN  IF i > Len(s) THEN [owned |-> FALSE, bytes |-> s]
        ELSE [owned |-> TRUE, bytes |-> SubSeq(s, 1, i - 1) \o unescape_loop(s, i)]

\* the hex digit d in the case the producer chose
HexChar(d, upper) == IF d < 10 THEN 48 + d ELSE IF upper THEN 55 + d ELSE 87 + d

\* the bytes the format hides: space, backslash and newline
Hidden == {SP, BACKSLASH, NL}

\* escape: every hidden byte as \xHH, every other byte as it is
RECURSIVE escape(_, _)
escape(b, upper) ==
    IF b = <<>> THEN <<>>
    ELSE (IF b[1] \in Hidden
          THEN <<BACKSLASH, LowerX, HexChar(b[1] \div 16, upper), HexChar(b[1] % 16, upper)>>
          ELSE <<b[1]>>) \o escape(Tail(b), upper)

(***************************************************************************)
(* ScannerConfig (src/src/config.rs): the constructor and the setters.     *)
(***************************************************************************)
None == [some |-> FALSE, val |-> 0]

Some(v) == [some |-> TRUE, val |-> v]

\* ScannerConfig::new
ScannerConfigNew ==
    [threads |-> 0, queue_size |-> None, hash |-> "Sha512_256",
     block_size |-> 32768, dirs |-> <<>>, print_progress |-> FALSE]

\* ScannerConfig::hash
ScannerConfigHash(c, h) == [c EXCEPT !.hash = h]

\* ScannerConfig::threads
ScannerConfigThreads(c, num) == [c EXCEPT !.threads = num]

\* ScannerConfig::queue_size
ScannerConfigQueueSize(c, num) == [c EXCEPT !.queue_size = Some(num)]

\* ScannerConfig::add_dir
ScannerConfigAddDir(c, path, prefix) ==
    [c EXCEPT !.dirs = Append(c.dirs, <<path, prefix>>)]

\* ScannerConfig::print_progress
ScannerConfigPrintProgress(c) == [c EXCEPT !.print_progress = TRUE]

(***************************************************************************)
(* Streams.  A stream is a header line and the rendering of a list of      *)
(* content lines, each ended by a newline, in the grammar of the format.   *)
(***************************************************************************)
MaxLines == 3

Item(t, name, tag, size, hashes, target) ==
    [t |-> t, name |-> name, tag |-> tag, size |-> size, hashes |-> hashes,
     target |-> target]

DirLine(path) == Item("dir", path, 0, 0, <<>>, <<>>)

FileLine(name, tag, size, hashes) == Item("file", name, tag, size, hashes, <<>>)

LinkLine(name, target) == Item("link", name, TagS, 0, <<>>, target)

RawLine(bytes) == Item("raw", bytes, 0, 0, <<>>, <<>>)

\* "/", "/a", "/b"; "  c f 6 8d 9c"; "  l s ../c"; "x" and a blank line
Items ==
    { DirLine(<<47>>), DirLine(<<47, 97>>), DirLine(<<47, 98>>),
      FileLine(<<99>>, TagF, 6, << <<56, 100>>, <<57, 99>> >>),
      LinkLine(<<108>>, <<46, 46, 47, 99>>),
      RawLine(<<120>>), RawLine(<<>>) }

\* and "  e x 0", "  d f 12 ab"
MoreItems ==
    Items \cup { FileLine(<<101>>, TagX, 0, <<>>),
                 FileLine(<<100>>, TagF, 12, << <<97, 98>> >>) }

\* the paths a caller asks advance for
\* "/", "/a", "/l", "/b/c", "/zz"
Targets ==
    { <<47>>, <<47, 97>>, <<47, 108>>, <<47, 98, 47, 99>>, <<47, 122, 122>> }

\* "<magic><sep><version> sha512/256 block_size=32768"
HeaderLine(magic, sep, version) ==
    magic \o sep \o version \o <<SP>> \o SHA512_256 \o <<SP>> \o BLOCK_SIZE_KEY
    \o <<EQUALS, 51, 50, 55, 54, 56>>

GoodHeader == HeaderLine(MAGIC, <<DOT>>, <<118, 49>>)

\* the header of the tests, then the magic cut short, in lower case and
\* with a byte too many, a header with no ".version", and an empty first line
Headers ==
    { GoodHeader,
      HeaderLine(SubSeq(MAGIC, 1, Len(MAGIC) - 1), <<DOT>>, <<118, 49>>),
      HeaderLine([i \in 1..Len(MAGIC) |-> MAGIC[i] + 32], <<DOT>>, <<118, 49>>),
      HeaderLine(MAGIC \o <<88>>, <<DOT>>, <<118, 49>>),
      HeaderLine(MAGIC, <<>>, <<>>),
      <<>> }

\* the decimal digits of n
RECURSIVE Dec(_)
Dec(n) == IF n < 10 THEN <<48 + n>> ELSE Dec(n \div 10) \o <<48 + (n % 10)>>

RECURSIVE JoinWith(_, _)
JoinWith(parts, sep) ==
    IF parts = <<>> THEN <<>>
    ELSE IF Len(parts) = 1 THEN parts[1]
    ELSE parts[1] \o sep \o JoinWith(Tail(parts), sep)

\* one content line of the grammar, its path escaped
Render(it) ==
    CASE it.t = "dir" -> escape(it.name, FALSE)
      [] it.t = "file" ->
           JoinWith(<<<<SP>>, escape(it.name, FALSE), <<it.tag>>, Dec(it.size)>>
                    \o it.hashes, <<SP>>)
      [] it.t = "link" ->
           JoinWith(<<<<SP>>, escape(it.name, FALSE), <<it.tag>>, it.target>>, <<SP>>)
      [] it.t = "raw" -> it.name

RECURSIVE RenderAll(_)
RenderAll(d) ==
    IF d = <<>> THEN <<>> ELSE Render(d[1]) \o <<NL>> \o RenderAll(Tail(d))

\* The fields a header line is written from: the version, the algorithm,
\* the block-size token(s) (toks, none when the token is missing) with the
\* value bs they stand for, and the further attributes.  kind says what the
\* third token is like; "raw" is a first line not written from fields.
HdrForm(kind, version, algo, bs, toks, attrs) ==
    [kind |-> kind, version |-> version, algo |-> algo, bs |-> bs,
     toks |-> toks, attrs |-> attrs]

RawHdr == HdrForm("raw", <<>>, "None", 0, <<>>, <<>>)

\* the header of the tests
TestHdr ==
    HdrForm("ok", <<118, 49>>, "Sha512_256", 32768,
            <<BLOCK_SIZE_KEY \o <<EQUALS, 51, 50, 55, 54, 56>>>>, <<>>)

AlgoText(algo) == IF algo = "Sha512_256" THEN SHA512_256 ELSE BLAKE2B_256

HdrRender(h) ==
    JoinWith(<<MAGIC \o <<DOT>> \o h.version, AlgoText(h.algo)>> \o h.toks \o h.attrs,
             <<SP>>)

\* "v1", "v1.2"
Versions == { <<118, 49>>, <<118, 49, 46, 50>> }

Algos == {"Sha512_256", "Blake2b_256"}

BlockSizes == {0, 32768, 999999999}

\* no further attribute, "extra=1", "x" and "y"
AttrLists == { <<>>, << <<101, 120, 116, 114, 97, 61, 49>> >>, << <<120>>, <<121>> >> }

\* block_size=<decimal>, written with or without leading zeros
GoodHdrs ==
    { HdrForm("ok", v, a, bs, <<BLOCK_SIZE_KEY \o <<EQUALS>> \o pad \o Dec(bs)>>, at) :
        v \in Versions, a \in Algos, bs \in BlockSizes,
        pad \in {<<>>, <<48, 48>>}, at \in AttrLists }

\* third tokens that are no block size: "blocksize=1", "Block_size=1",
\* "block_size", "block_size=", "block_size=abc", "block_size=-1",
\* "block_size=12a", "block_size=18446744073709551616" (2^64)
BadThirds ==
    { <<"wrong_key", <<98, 108, 111, 99, 107, 115, 105, 122, 101, 61, 49>>>>,
      <<"wrong_key", <<66>> \o Tail(BLOCK_SIZE_KEY) \o <<EQUALS, 49>>>>,
      <<"bare", BLOCK_SIZE_KEY>>,
      <<"empty_value", BLOCK_SIZE_KEY \o <<EQUALS>>>>,
      <<"not_decimal", BLOCK_SIZE_KEY \o <<EQUALS, 97, 98, 99>>>>,
      <<"not_decimal", BLOCK_SIZE_KEY \o <<EQUALS, 45, 49>>>>,
      <<"not_decimal", BLOCK_SIZE_KEY \o <<EQUALS, 49, 50, 97>>>>,
      <<"overflow", BLOCK_SIZE_KEY \o <<EQUALS>>
                    \o [i \in 1..20 |-> 48 + U64_MAX_DIGITS[i] + (IF i = 20 THEN 1 ELSE 0)]>> }

\* the headers with no valid block size: the token missing, or a bad one
BadHdrs ==
    { HdrForm("missing", v, a, 0, <<>>, <<>>) : v \in Versions, a \in Algos }
    \cup { HdrForm(t[1], v, a, 0, <<t[2]>>, <<>>) :
             v \in Versions, a \in Algos, t \in BadThirds }

\* up to MaxLines content lines; a file or link line comes after some
\* other line (in the format, after the line of its directory)
DocsOf(items) ==
    {d \in UNION {[1..n -> items] : n \in 0..MaxLines} :
        d # <<>> => d[1].t \in {"dir", "raw"}}

(***************************************************************************)
(* What a list of content lines denotes, by the format's definition: the   *)
(* entry of each line, a file's or link's path being its name under the    *)
(* nearest directory line before it.                                       *)
(***************************************************************************)
\* the index of the nearest directory line before line i, 0 when none
DirBefore(d, i) ==
    LET J == {j \in 1..(i - 1) : d[j].t = "dir"}
    IN  IF J = {} THEN 0 ELSE CHOOSE j \in J : \A k \in J : k <= j

Under(dir, name) ==
    IF dir = <<SLASH>> THEN dir \o name ELSE dir \o <<SLASH>> \o name

FullPath(d, i) ==
    IF d[i].t = "dir" THEN d[i].name
    ELSE IF DirBefore(d, i) = 0 THEN d[i].name
    ELSE Under(d[DirBefore(d, i)].name, d[i].name)

Denotes(d, i) ==
    CASE d[i].t = "dir" -> Dir(d[i].name)
      [] d[i].t = "file" -> File(FullPath(d, i), d[i].size, d[i].hashes)
      [] d[i].t = "link" -> Link(FullPath(d, i), d[i].target)
      [] d[i].t = "raw" -> NoEntry

\* every line is an entry line, and the first one is a directory line
WellFormed(d) ==
    /\ \A i \in 1..Len(d) : d[i].t # "raw"
    /\ d # <<>> => d[1].t = "dir"

\* the ordering invariant: full paths strictly ascending in byte order
Ordered(d) ==
    \A i \in 1..(Len(d) - 1) : CmpBytes(FullPath(d, i), FullPath(d, i + 1)) = "Less"

\* line i is an entry line, and path is its full path
IsLine(d, i, path) == i \in 1..Len(d) /\ d[i].t # "raw" /\ FullPath(d, i) = path

Present(d, path) == \E i \in 1..Len(d) : IsLine(d, i, path)

\* the content line (1-based, 0 for the header) that starts at offset at
LineAt(buf, at) == Cardinality({i \in 1..at : buf[i] = NL})

(***************************************************************************)
(* The calls.                                                              *)
(***************************************************************************)
NoOp == [name |-> "none", target |-> <<>>]

Call(name, target) == [name |-> name, target |-> target]

\* The calls since the engine was opened or last reset:
\*   kind "seq": n calls, all of them next(); gen tells how the run began:
\*       "new" (opened), "reset", or "reset_err" (reset called right after a
\*       call that returned a ParseError);
\*   kind "adv": n calls, all of them advance(); replay: the target of the
\*       i-th call was the full path of the i-th content line, for every i;
\*   kind "mixed": anything else.
Trail(kind, gen, n, replay) == [kind |-> kind, gen |-> gen, n |-> n, replay |-> replay]

Mixed == Trail("mixed", "any", 0, FALSE)

\* no codec call and no ScannerConfig: the reader alone is at work
NoCodec == [phase |-> "off", plain |-> <<>>, text |-> <<>>, out |-> <<>>,
            owned |-> FALSE, escaped |-> FALSE]

NoConfig == [made |-> FALSE, cfg |-> ScannerConfigNew, called |-> {}]

\* before Parser::new
Closed ==
    /\ state = "closed"
    /\ header = NoHeader
    /\ pos = 0
    /\ current_dir = <<>>
    /\ current_row_num = 0
    /\ op = NoOp
    /\ ret = Result("init", NoEntry, NoError, 0, -1, FALSE)
    /\ trail = Trail("seq", "new", 0, FALSE)

InitOver(items) ==
    /\ doc \in DocsOf(items)
    /\ \E h \in Headers :
          /\ h = GoodHeader \/ doc = <<>>
          /\ stream = h \o <<NL>> \o RenderAll(doc)
          /\ hdr = IF h = GoodHeader THEN TestHdr ELSE RawHdr
    /\ Closed
    /\ codec = NoCodec
    /\ config = NoConfig

TheEngine == Engine(pos, current_dir, current_row_num)

SetEngine(e) ==
    /\ pos' = e.pos
    /\ current_dir' = e.current_dir
    /\ current_row_num' = e.current_row_num

\* Parser::new(reader)
new ==
    /\ state = "closed"
    /\ LET r == ParserNew(stream)
       IN  /\ state' = IF r.kind = "ok" THEN "open" ELSE "failed"
           /\ header' = r.header
           /\ IF r.kind = "ok" THEN SetEngine(r.engine)
              ELSE UNCHANGED <<pos, current_dir, current_row_num>>
           /\ ret' = r.result
    /\ op' = Call("new", <<>>)
    /\ UNCHANGED <<stream, doc, trail, hdr, codec, config>>

\* parser.next()
next ==
    /\ state = "open"
    /\ LET r == ParserNext(stream, TheEngine)
       IN  /\ SetEngine(r.engine)
           /\ ret' = r.result
           /\ trail' = IF trail.kind # "seq" THEN Mixed
                       ELSE IF trail.n > Len(doc) THEN trail
                       ELSE [trail EXCEPT !.n = trail.n + 1]
    /\ op' = Call("next", <<>>)
    /\ UNCHANGED <<stream, doc, state, header, hdr, codec, config>>

\* parser.advance(path)
advance(path) ==
    /\ state = "open"
    /\ LET r == ParserAdvance(stream, path, TheEngine)
           first == trail.kind = "seq" /\ trail.n = 0
       IN  /\ SetEngine(r.engine)
           /\ ret' = r.result
           /\ trail' = IF first THEN Trail("adv", "any", 1, IsLine(doc, 1, path))
                       ELSE IF trail.kind # "adv" THEN Mixed
                       ELSE IF trail.n > Len(doc) THEN trail
                       ELSE Trail("adv", "any", trail.n + 1,
                                  trail.replay /\ IsLine(doc, trail.n + 1, path))
    /\ op' = Call("advance", path)
    /\ UNCHANGED <<stream, doc, state, header, hdr, codec, config>>

\* parser.reset()
reset ==
    /\ state = "open"
    /\ LET r == ParserReset(stream, TheEngine)
       IN  /\ SetEngine(r.engine)
           /\ ret' = r.result
    /\ trail' = Trail("seq", IF ret.kind = "err" THEN "reset_err" ELSE "reset", 0, FALSE)
    /\ op' = Call("reset", <<>>)
    /\ UNCHANGED <<stream, doc, state, header, hdr, codec, config>>

Init == InitOver(Items)

Next ==
    \/ new
    \/ next
    \/ \E path \in Targets : advance(path)
    \/ reset

Spec == Init /\ [][Next]_vars

(***************************************************************************)
(* Sequential reading alone, over more kinds of lines.                     *)
(***************************************************************************)
InitSeq == InitOver(MoreItems)

NextSeq ==
    \/ new
    \/ next
    \/ reset

SpecSeq == InitSeq /\ [][NextSeq]_vars

(***************************************************************************)
(* Opening streams over many header lines.                                 *)
(***************************************************************************)
InitHdr ==
    /\ hdr \in GoodHdrs \cup BadHdrs
    /\ doc \in DocsOf({DirLine(<<SLASH>>)})
    /\ stream = HdrRender(hdr) \o <<NL>> \o RenderAll(doc)
    /\ Closed
    /\ codec = NoCodec
    /\ config = NoConfig

NextHdr ==
    \/ new
    \/ next
    \/ reset

SpecHdr == InitHdr /\ [][NextHdr]_vars

(***************************************************************************)
(* Reading streams whose paths hold escaped bytes.                         *)
(***************************************************************************)
\* "/", "/a b", "  c d f 6 8d", "  l\m s ../c", and "  e x 0"
EscItems ==
    { DirLine(<<47>>), DirLine(<<47, 97, 32, 98>>),
      FileLine(<<99, 32, 100>>, TagF, 6, << <<56, 100>> >>),
      LinkLine(<<108, 92, 109>>, <<46, 46, 47, 99>>),
      FileLine(<<101>>, TagX, 0, <<>>) }

\* "/a b" and "/a b/c d" as they are and as the stream writes them, and "/e"
EscTargets ==
    { <<47, 97, 32, 98>>, escape(<<47, 97, 32, 98>>, FALSE),
      <<47, 97, 32, 98, 47, 99, 32, 100>>,
      escape(<<47, 97, 32, 98, 47, 99, 32, 100>>, FALSE),
      <<47, 101>> }

InitEsc ==
    /\ doc \in DocsOf(EscItems)
    /\ stream = GoodHeader \o <<NL>> \o RenderAll(doc)
    /\ hdr = TestHdr
    /\ Closed
    /\ codec = NoCodec
    /\ config = NoConfig

NextEsc ==
    \/ new
    \/ next
    \/ \E path \in EscTargets : advance(path)
    \/ reset

SpecEsc == InitEsc /\ [][NextEsc]_vars

(***************************************************************************)
(* The codec alone: a byte string escaped and decoded again, and a text    *)
(* decoded as it stands.                                                   *)
(***************************************************************************)
MaxPlain == 4
MaxText == 5

\* space, backslash, newline, 'x', '2', '0'
PlainBytes == {SP, BACKSLASH, NL, LowerX, 50, 48}

\* backslash, 'x', '4', 'F', 'f', 'g'
TextBytes == {BACKSLASH, LowerX, 52, 70, 102, 103}

SeqsUpTo(S, n) == UNION {[1..k -> S] : k \in 0..n}

\* no reader is open while the codec or the config is at work
ReaderOff ==
    /\ stream = <<>>
    /\ doc = <<>>
    /\ hdr = RawHdr
    /\ Closed

InitCodec ==
    /\ ReaderOff
    /\ config = NoConfig
    /\ \/ \E b \in SeqsUpTo(PlainBytes, MaxPlain) :
             codec = [phase |-> "plain", plain |-> b, text |-> <<>>, out |-> <<>>,
                      owned |-> FALSE, escaped |-> FALSE]
       \/ \E t \in SeqsUpTo(TextBytes, MaxText) :
             codec = [phase |-> "text", plain |-> <<>>, text |-> t, out |-> <<>>,
                      owned |-> FALSE, escaped |-> FALSE]

\* the producer writes a path: escape(plain), in the case it chooses
codec_escape(upper) ==
    /\ codec.phase = "plain"
    /\ codec' = [codec EXCEPT !.phase = "text", !.text = escape(codec.plain, upper),
                              !.escaped = TRUE]
    /\ UNCHANGED <<stream, doc, state, header, pos, current_dir, current_row_num,
                   op, ret, trail, hdr, config>>

\* unescape_hex(text)
codec_unescape ==
    /\ codec.phase = "text"
    /\ LET r == unescape_hex(codec.text)
       IN  codec' = [codec EXCEPT !.phase = "done", !.out = r.bytes, !.owned = r.owned]
    /\ UNCHANGED <<stream, doc, state, header, pos, current_dir, current_row_num,
                   op, ret, trail, hdr, config>>

NextCodec ==
    \/ \E upper \in BOOLEAN : codec_escape(upper)
    \/ codec_unescape

SpecCodec == InitCodec /\ [][NextCodec]_vars

(***************************************************************************)
(* A ScannerConfig under its setters.                                      *)
(***************************************************************************)
MaxThreads == 2
MaxQueue == 2
MaxDirs == 2

InitConfig ==
    /\ ReaderOff
    /\ codec = NoCodec
    /\ config = NoConfig

Configure(c, setter) ==
    /\ config.made
    /\ config' = [config EXCEPT !.cfg = c, !.called = config.called \cup {setter}]
    /\ UNCHANGED <<stream, doc, state, header, pos, current_dir, current_row_num,
                   op, ret, trail, hdr, codec>>

\* ScannerConfig::new()
scanner_new ==
    /\ ~config.made
    /\ config' = [made |-> TRUE, cfg |-> ScannerConfigNew, called |-> {}]
    /\ UNCHANGED <<stream, doc, state, header, pos, current_dir, current_row_num,
                   op, ret, trail, hdr, codec>>

\* config.hash(h)
scanner_hash(h) == Configure(ScannerConfigHash(config.cfg, h), "hash")

\* config.threads(num)
scanner_threads(num) == Configure(ScannerConfigThreads(config.cfg, num), "threads")

\* config.queue_size(num)
scanner_queue_size(num) ==
    Configure(ScannerConfigQueueSize(config.cfg, num), "queue_size")

\* config.add_dir(path, prefix)
scanner_add_dir(path, prefix) ==
    /\ Len(config.cfg.dirs) < MaxDirs
    /\ Configure(ScannerConfigAddDir(config.cfg, path, prefix), "add_dir")

\* config.print_progress()
scanner_print_progress ==
    Configure(ScannerConfigPrintProgress(config.cfg), "print_progress")

NextConfig ==
    \/ scanner_new
    \/ \E h \in Algos : scanner_hash(h)
    \/ \E num \in 0..MaxThreads : scanner_threads(num)
    \/ \E num \in 1..MaxQueue : scanner_queue_size(num)
    \/ \E path \in {<<47, 97>>, <<47, 98>>} : scanner_add_dir(path, <<SLASH>>)
    \/ scanner_print_progress

SpecConfig == InitConfig /\ [][NextConfig]_vars

(***************************************************************************)
(* Seeking in streams where the byte order of two paths and the order of   *)
(* their components differ ('.' sorts before '/').                         *)
(***************************************************************************)
\* "/a", "/a.b", "/a/b", and "  b.c f 0"
OrdItems ==
    { DirLine(<<47, 97>>), DirLine(<<47, 97, 46, 98>>), DirLine(<<47, 97, 47, 98>>),
      FileLine(<<98, 46, 99>>, TagF, 0, <<>>) }

\* "/a.b", "/a/b", "/a/b.c", "/a/b/c"
OrdTargets ==
    { <<47, 97, 46, 98>>, <<47, 97, 47, 98>>,
      <<47, 97, 47, 98, 46, 99>>, <<47, 97, 47, 98, 47, 99>> }

InitOrd ==
    /\ doc \in DocsOf(OrdItems)
    /\ stream = GoodHeader \o <<NL>> \o RenderAll(doc)
    /\ hdr = TestHdr
    /\ Closed
    /\ codec = NoCodec
    /\ config = NoConfig

NextOrd ==
    \/ new
    \/ next
    \/ \E path \in OrdTargets : advance(path)
    \/ reset

SpecOrd == InitOrd /\ [][NextOrd]_vars

(***************************************************************************)
(* Properties.                                                             *)
(***************************************************************************)
Opened == state = "open"

\* the first n calls since the engine was opened were next(), nothing else
FreshSeq(n) == Opened /\ trail.kind = "seq" /\ trail.gen = "new" /\ trail.n = n

\* the result of the k-th of k successive next() calls from engine e
RECURSIVE NthNext(_, _, _)
NthNext(buf, e, k) ==
    LET r == ParserNext(buf, e)
    IN  IF k <= 1 THEN r.result ELSE NthNext(buf, r.engine, k - 1)

\* the engine a freshly opened parser has on this stream
FreshEngine == ParserNew(stream).engine

\* the prefix of the stream before its first '.', space or newline
RECURSIVE Token(_, _)
Token(buf, i) ==
    IF i > Len(buf) \/ buf[i] \in {DOT, SP, NL} THEN SubSeq(buf, 1, i - 1)
    ELSE Token(buf, i + 1)

\* C1: on a freshly opened engine over a well-formed stream, the n-th next()
\* returns the entry the n-th content line denotes (a directory line its
\* path, a file line its path under the directory, size and hashes in line
\* order, a link line its path and target), and once every line was
\* returned next() returns end of stream.
C1_SequentialIteration ==
    \A n \in 1..(Len(doc) + 1) :
        (FreshSeq(n) /\ WellFormed(doc)) =>
            IF n <= Len(doc)
            THEN ret.kind = "entry" /\ ret.entry = Denotes(doc, n)
            ELSE ret.kind = "none" /\ ret.eof

\* every line of a well-formed stream with an x file and a link was read
C1_Witness ==
    /\ FreshSeq(Len(doc) + 1)
    /\ WellFormed(doc)
    /\ ret.kind = "none"
    /\ \E i \in 1..Len(doc) : doc[i].t = "file" /\ doc[i].tag = TagX
    /\ \E i \in 1..Len(doc) : doc[i].t = "link"

\* C2: on a freshly opened engine over a well-formed stream whose full paths
\* ascend strictly, a single advance(target) returns the entry of the line
\* whose full path is target when there is one, and returns not found only
\* when there is none.
C2_OrderedSeek ==
    (Opened /\ trail.kind = "adv" /\ trail.n = 1 /\ WellFormed(doc) /\ Ordered(doc)) =>
        /\ ret.kind # "err"
        /\ \A i \in 1..Len(doc) :
              FullPath(doc, i) = op.target =>
                  ret.kind = "entry" /\ ret.entry = Denotes(doc, i)
        /\ ret.kind = "none" => ~Present(doc, op.target)

\* C3: starting from a freshly opened engine over a well-formed, ordered
\* stream, advancing to the full path of each content line in turn returns
\* the entry of that line at every call.
C3_MergeJoinReplay ==
    \A n \in 1..Len(doc) :
        (Opened /\ trail.kind = "adv" /\ trail.n = n /\ trail.replay
            /\ WellFormed(doc) /\ Ordered(doc)) =>
                ret.kind = "entry" /\ ret.entry = Denotes(doc, n)

\* C4: after reset() the engine is as freshly opened (directory context
\* empty, row counter 1, position just after the header line), and the n-th
\* of the next() calls that follow returns what the n-th next() of a freshly
\* opened engine returns on the same stream, whatever calls came before.
C4_ResetIdempotence ==
    (Opened /\ trail.kind = "seq" /\ trail.gen # "new") =>
        /\ trail.n = 0 =>
              /\ current_dir = <<>>
              /\ current_row_num = 1
              /\ TheEngine = FreshEngine
        /\ trail.n >= 1 => ret = NthNext(stream, FreshEngine, trail.n)

\* the second next() after a reset() returned a file, as the fresh one did
C4_Witness ==
    /\ Opened /\ trail.kind = "seq" /\ trail.gen = "reset" /\ trail.n = 2
    /\ ret.kind = "entry" /\ ret.entry.kind = "File"
    /\ Len(doc) = 3 /\ doc[3].t = "dir"

\* C5: a File or Link entry returned by next() or advance(), after any calls,
\* has the absolute path made of the nearest directory line before its line
\* and the line's relative name.
C5_PathUnderNearestDir ==
    (Opened /\ ret.kind = "entry" /\ ret.entry.kind \in {"File", "Link"}
        /\ DirBefore(doc, LineAt(stream, ret.at)) # 0) =>
            /\ ret.entry.path = FullPath(doc, LineAt(stream, ret.at))
            /\ ret.entry.path[1] = SLASH

\* C6: a next() or advance() call never moves the position backwards, and
\* an entry it returns comes from a line at or after the position the call
\* started from and before the position it leaves; so, between two resets,
\* no line is returned twice and entries are returned in stream order.
C6_ForwardOnly ==
    [][(Opened /\ op'.name \in {"next", "advance"}) =>
            /\ pos' >= pos
            /\ ret'.kind = "entry" => (pos <= ret'.at /\ ret'.at < pos')]_vars

\* after other calls, advance() returned the entry of the third line
C6_Witness ==
    /\ Opened /\ trail.kind = "mixed" /\ op.name = "advance"
    /\ ret.kind = "entry" /\ LineAt(stream, ret.at) = 3

\* C7: a call that finds the source exhausted returns not found / end of
\* stream, never an error, and after such a call every next() and every
\* advance() finds it exhausted again, until reset() is called.
C7_EndOfStream ==
    [][(Opened /\ op'.name \in {"next", "advance"}) =>
            /\ ret'.eof => ret'.kind = "none"
            /\ ret.eof => (ret'.eof /\ ret'.kind = "none")]_vars

\* after an advance(), next() found a three-line stream exhausted
C7_Witness ==
    /\ Opened /\ trail.kind = "mixed" /\ op.name = "next"
    /\ ret.kind = "none" /\ ret.eof /\ Len(doc) = 3 /\ doc[3].t = "link"

\* C8: a ParseError of next() or advance() carries the 1-based number of the
\* line it is about (the header line is line 1).
C8_ErrorRow ==
    (Opened /\ ret.kind = "err") => ret.row = LineAt(stream, ret.at) + 1

\* C9: a ParseError leaves the header as it was parsed when the engine was
\* opened, and after a reset() that follows the error the n-th next()
\* returns what the n-th next() of a freshly opened engine returns.
C9_FailureKeepsEngine ==
    /\ (Opened /\ ret.kind = "err") => header = HeaderParse(read_until(stream, 0)).header
    /\ (Opened /\ trail.kind = "seq" /\ trail.gen = "reset_err") =>
          /\ header = HeaderParse(read_until(stream, 0)).header
          /\ trail.n = 0 => TheEngine = FreshEngine
          /\ trail.n >= 1 => ret = NthNext(stream, FreshEngine, trail.n)

\* after an error and reset(), the second next() hit the error again
C9_Witness ==
    /\ Opened /\ trail.kind = "seq" /\ trail.gen = "reset_err" /\ trail.n = 2
    /\ ret.kind = "err" /\ doc[1].t = "dir"

\* C10: opening a stream whose first token (the bytes before the first '.',
\* space or newline) is not the magic fails with the error that names the
\* expected and the found magic, at row 1, and leaves no engine.
C10_HeaderRejection ==
    (state # "closed" /\ Token(stream, 1) # MAGIC) =>
        /\ state = "failed"
        /\ ret.kind = "err"
        /\ ret.err = RowError("InvalidSignature", MAGIC, Token(stream, 1))
        /\ ret.row = 1
        /\ header = NoHeader

\* the header of test_parser_invalid_header_signature was rejected
C10_Witness ==
    /\ state = "failed"
    /\ Token(stream, 1) = SubSeq(MAGIC, 1, Len(MAGIC) - 1)
    /\ ret.err.tag = "InvalidSignature"

\* C11: opening a stream whose first line is DIRSIGNATURE.<version>, a known
\* algorithm and block_size=<decimal>, with or without further attributes
\* after it, succeeds, and header() holds exactly that version, that
\* algorithm and that block size, also after next() and reset() calls.
C11_HeaderAcceptance ==
    (state # "closed" /\ hdr.kind = "ok") =>
        /\ state = "open"
        /\ header = [version |-> hdr.version, hash_type |-> hdr.algo,
                     block_size |-> hdr.bs]

\* a blake2b header of version v1.2 with two further attributes was opened
C11_Witness ==
    /\ state = "open" /\ hdr.kind = "ok"
    /\ Len(hdr.attrs) = 2 /\ hdr.algo = "Blake2b_256"
    /\ header.version = <<118, 49, 46, 50>> /\ header.block_size = 32768

\* C20: opening a stream whose header has no third token, or a third token
\* that is not keyed exactly block_size, has no "=value" part, or has a value
\* that is no decimal u64, returns a ParseError at row 1 (an error value,
\* not a panic).
C20_BlockSizeValidation ==
    (state # "closed"
        /\ hdr.kind \in {"missing", "wrong_key", "bare", "empty_value",
                         "not_decimal", "overflow"}) =>
            /\ state = "failed"
            /\ ret.kind = "err"
            /\ ret.row = 1
            /\ ret.err.tag \in {"MissingBlockSizeAttr", "ExpectedBlockSize",
                                "InvalidHeaderInt"}

\* a byte string with a byte the format hides
HasHidden(b) == \E i \in 1..Len(b) : b[i] \in Hidden

\* C12: the path of an entry returned by next() or advance() is decoded: for
\* a line whose path holds a hidden byte, written as \xHH in the stream, a
\* Dir entry's path is the path with the byte itself, and a File or Link
\* entry's path ends with the relative name with the byte itself.
C12_PathsDecoded ==
    (Opened /\ ret.kind = "entry" /\ HasHidden(doc[LineAt(stream, ret.at)].name)) =>
        LET it == doc[LineAt(stream, ret.at)]
        IN  IF it.t = "dir" THEN ret.entry.path = it.name
            ELSE EndsWith(ret.entry.path, it.name)

\* C13: unescape(escape(b)) = b for every byte string b, whichever case the
\* producer writes the hex digits in.
C13_EscapeRoundTrip ==
    (codec.phase = "done" /\ codec.escaped) => codec.out = codec.plain

\* the four bytes \x20 themselves, as a name, came back from the round trip
C13_Witness ==
    /\ codec.phase = "done" /\ codec.escaped
    /\ codec.plain = <<BACKSLASH, LowerX, 50, 48>>
    /\ Len(codec.text) = 7
    /\ codec.out = codec.plain

\* the value of a hex digit
HexValue(c) ==
    IF c \in 48..57 THEN c - 48 ELSE IF c \in 65..70 THEN c - 55 ELSE c - 87

\* at index i of t stands \x and two hex digits of either case
EscapeAt(t, i) ==
    /\ i + 3 <= Len(t)
    /\ t[i] = BACKSLASH /\ t[i + 1] = LowerX
    /\ t[i + 2] \in (48..57) \cup (65..70) \cup (97..102)
    /\ t[i + 3] \in (48..57) \cup (65..70) \cup (97..102)

\* t from index i on, read left to right: an escape as the byte 16*H1 + H2,
\* any other byte as itself
RECURSIVE Decoded(_, _)
Decoded(t, i) ==
    IF i > Len(t) THEN <<>>
    ELSE IF EscapeAt(t, i)
    THEN <<16 * HexValue(t[i + 2]) + HexValue(t[i + 3])>> \o Decoded(t, i + 4)
    ELSE <<t[i]>> \o Decoded(t, i + 1)

\* C14: unescape_hex reads its input left to right, gives the byte
\* 16*H1 + H2 for each \xH1H2 with hex digits of either case and every other
\* byte as it is; an input with no such escape, a lone \x included, comes
\* back unchanged.
C14_UnescapeScan ==
    codec.phase = "done" =>
        /\ codec.out = Decoded(codec.text, 1)
        /\ (\A i \in 1..Len(codec.text) : ~EscapeAt(codec.text, i)) =>
              codec.out = codec.text

\* \x4f decoded to the byte 0x4f, the lone backslash after it kept
C14_Witness ==
    /\ codec.phase = "done" /\ ~codec.escaped
    /\ codec.text = <<BACKSLASH, LowerX, 52, 102, BACKSLASH>>
    /\ codec.out = <<79, BACKSLASH>>

\* C15: a config made by ScannerConfig::new() has 1 thread and the
\* sha512/256 hasher, and keeps each until the setter of that field is
\* called, whatever other setters are called.
C15_ConfigDefaults ==
    config.made =>
        /\ "threads" \notin config.called => config.cfg.threads = 1
        /\ "hash" \notin config.called => config.cfg.hash = "Sha512_256"

\* the offset in the stream at which content line i starts
RECURSIVE LineStart(_, _)
LineStart(buf, i) ==
    IF i <= 0 THEN 0 ELSE LineEnd(buf, LineStart(buf, i - 1))

\* every content line before line i has a full path below path
AllBelow(d, i, path) ==
    \A j \in 1..(i - 1) : CmpBytes(FullPath(d, j), path) = "Less"

\* the directory line at index k is an ancestor of path
Ancestor(d, k, path) ==
    k # 0 /\ d[k].name # path /\ StartsWith(path, Under(d[k].name, <<>>))

\* C16: skip-files mode ends with the directory it was set for: in a single
\* advance(target) on a fresh engine over a well-formed, ordered stream, once
\* a directory that is not an ancestor of target was passed and an ancestor
\* directory was entered, the file and link lines of that ancestor are
\* compared with target, so the first of them that is not below target stops
\* the scan: it is returned if it is target, and gives not found at that
\* line if it is above.
C16_SkipScopedToDirectory ==
    (Opened /\ trail.kind = "adv" /\ trail.n = 1 /\ WellFormed(doc) /\ Ordered(doc)) =>
        \A i \in 1..Len(doc) :
            (/\ doc[i].t \in {"file", "link"}
             /\ Ancestor(doc, DirBefore(doc, i), op.target)
             /\ \E k \in 1..(i - 1) : doc[k].t = "dir" /\ ~Ancestor(doc, k, op.target)
             /\ AllBelow(doc, i, op.target)
             /\ CmpBytes(FullPath(doc, i), op.target) # "Less") =>
                /\ ret.at = LineStart(stream, i)
                /\ IF FullPath(doc, i) = op.target
                   THEN ret.kind = "entry" /\ ret.entry = Denotes(doc, i)
                   ELSE ret.kind = "none" /\ ~ret.eof

\* C17: when advance(target) returns not found at a directory line above
\* target, the cursor stays at that line: a next() called right after it
\* returns that directory.
C17_DirectoryOvershoot ==
    [][(/\ Opened /\ op.name = "advance"
        /\ ret.kind = "none" /\ ~ret.eof
        /\ doc[LineAt(stream, ret.at)].t = "dir"
        /\ op'.name = "next") =>
            /\ ret'.kind = "entry"
            /\ ret'.entry = Dir(doc[LineAt(stream, ret.at)].name)]_vars

\* content line i starts at or after the position before the step and
\* before the position after it: the step read it
ReadLine(i) ==
    pos <= LineStart(stream, i) /\ LineStart(stream, i) < pos'

\* no content line is blank
NoBlank(d) == \A j \in 1..Len(d) : Render(d[j]) # <<>>

\* C18: in a stream with no blank line, a next() or advance() call that
\* reads a content line starting neither with "/" nor with two spaces
\* returns the ParseError for that line, with its row number (content line i
\* is row i + 1), also when advance is skipping the files of a directory.
C18_MalformedReported ==
    [][(Opened /\ NoBlank(doc) /\ op'.name \in {"next", "advance"}) =>
          \A i \in 1..Len(doc) :
              (doc[i].t = "raw" /\ doc[i].name # <<>> /\ ReadLine(i)) =>
                  /\ ret'.kind = "err"
                  /\ ret'.err.tag = "ExpectedSlashOrSpaces"
                  /\ ret'.at = LineStart(stream, i)
                  /\ ret'.row = i + 1]_vars

\* C19: a next() or advance() call that reads a blank content line with
\* another content line after it returns a ParseError at that blank line.
C19_BlankLineMalformed ==
    [][(Opened /\ op'.name \in {"next", "advance"}) =>
          \A i \in 1..(Len(doc) - 1) :
              (doc[i].t = "raw" /\ doc[i].name = <<>> /\ ReadLine(i)
                  /\ \E j \in (i + 1)..Len(doc) : Render(doc[j]) # <<>>) =>
                      /\ ret'.kind = "err"
                      /\ ret'.at = LineStart(stream, i)]_vars

\* C21: advance decides by the byte order of the full paths.  In a single
\* advance(target) on a fresh engine over a well-formed stream, take a line
\* i such that every directory line before it is an ancestor of target and
\* every line before it is below target in byte order (so the scan reaches
\* it, outside skip mode): if its full path is above target in byte order
\* the call returns not found at that line, if it is target the call returns
\* its entry, and if it is below target the scan goes on past it.
C21_ByteOrder ==
    (Opened /\ trail.kind = "adv" /\ trail.n = 1 /\ WellFormed(doc)) =>
        \A i \in 1..Len(doc) :
            (/\ \A k \in 1..(i - 1) : doc[k].t = "dir" => Ancestor(doc, k, op.target)
             /\ AllBelow(doc, i, op.target)) =>
                CASE CmpBytes(FullPath(doc, i), op.target) = "Greater" ->
                        ret.kind = "none" /\ ~ret.eof /\ ret.at = LineStart(stream, i)
                  [] CmpBytes(FullPath(doc, i), op.target) = "Equal" ->
                        /\ ret.kind = "entry" /\ ret.at = LineStart(stream, i)
                        /\ ret.entry = Denotes(doc, i)
                  [] CmpBytes(FullPath(doc, i), op.target) = "Less" ->
                        ret.at # LineStart(stream, i)

\* the last call was an advance() that returned not found at a file or
\* link line
FileOvershoot ==
    /\ Opened /\ op.name = "advance"
    /\ ret.kind = "none" /\ ~ret.eof
    /\ doc[LineAt(stream, ret.at)].t \in {"file", "link"}

\* C22: when advance(target) returns not found at a file or link line, that
\* line is consumed: the position is at the start of the line after it; a
\* next() that follows reads the line after it (its entry or its error) or
\* finds the end of the stream; and no next() or advance() moves the
\* position back or returns an entry from before the position it starts at,
\* so the line is not returned again before reset().
C22_FileOvershootConsumed ==
    [][/\ FileOvershoot =>
            LET i == LineAt(stream, ret.at)
            IN  /\ pos = LineStart(stream, i + 1)
                /\ op'.name = "next" =>
                      IF \A j \in (i + 1)..Len(doc) : Render(doc[j]) = <<>>
                      THEN ret'.kind = "none" /\ ret'.eof
                      ELSE /\ ret'.kind \in {"entry", "err"}
                           /\ ret'.at >= LineStart(stream, i + 1)
                           /\ Render(doc[i + 1]) # <<>> =>
                                 /\ ret'.at = LineStart(stream, i + 1)
                                 /\ doc[i + 1].t = "dir" =>
                                       ret'.entry = Dir(doc[i + 1].name)
       /\ (Opened /\ op'.name \in {"next", "advance"}) =>
            /\ pos' >= pos
            /\ ret'.kind = "entry" => ret'.at >= pos]_vars

\* advance() returned not found at the file line of a stream, which a
\* directory line follows
C22_Witness ==
    /\ FileOvershoot
    /\ LineAt(stream, ret.at) = 2 /\ Len(doc) = 3 /\ doc[3].t = "dir"
    /\ pos = LineStart(stream, 3)
====
